---- MODULE Spec2Model ----
(***************************************************************************)
(* Model of the record repository of the GWAS front-end                    *)
(* (src/frontend/web/src/App.tsx): loadRecords, uploadGWASData,            *)
(* processGWAS and decryptWithSignature running in several browser         *)
(* sessions against one shared key/value contract.  Every await of a       *)
(* handler is one step of the session that runs it; the synchronous code   *)
(* between two awaits belongs to the step of the await that precedes it.   *)
(*                                                                         *)
(* Strings and bytes are modelled by their structure:                      *)
(*   toString(v)          <<"num", v>>                                     *)
(*   btoa(s)              <<"b64", s>>                                     *)
(*   `FHE-${s}`           <<"FHE-", s>>                                    *)
(*   JSON.stringify(v)    <<"json", v>>                                    *)
(*   ethers.toUtf8Bytes(s) <<"utf8", s>>                                   *)
(*   empty bytes          << >>                                            *)
(* A double is [lit, exps]: Math.exp(-x * 0.1) applied exps times to the   *)
(* literal lit; exps = -1 is NaN.                                          *)
(*                                                                         *)
(* getContractReadOnly and getContractWithSigner (./contract, not part of  *)
(* the sources at hand) are taken to return a contract.  The transaction   *)
(* modal (lines 666-677) covers the page while transactionStatus.visible,  *)
(* so a session starts a handler only once the modal is gone.              *)
(***************************************************************************)
EXTENDS Naturals, Integers, Sequences, FiniteSets, TLC

\* Number of calls in one behaviour: the handler calls of the sessions
\* (loadRecords from the page, uploadGWASData, processGWAS,
\* decryptWithSignature) and the writes of other users of the contract.
MaxCalls == 3

\* Number of record ids the sessions generate in one behaviour.
MaxIds == 2

VARIABLES
    store,              \* the contract's storage: key -> bytes
    available,          \* what contract.isAvailable() answers
    nextId,             \* ids generated so far (Date.now() + random suffix)
    nCalls,             \* calls started so far
    address,            \* useAccount().address of each session
    pc,                 \* where each session's running handler stands
    op,                 \* the handler each session is running
    recordId,           \* local recordId of uploadGWASData / processGWAS
    recordData,         \* local recordData of uploadGWASData / processGWAS
    keys,               \* local keys of uploadGWASData
    records,            \* React state records
    transactionStatus,  \* React state transactionStatus
    uploading,          \* React state uploading
    isRefreshing,       \* React state isRefreshing
    newRecordData,      \* React state newRecordData (the upload form)
    pcDecrypt,          \* where each session's decryptWithSignature stands
    decryptInput,       \* parameter encryptedData of decryptWithSignature
    isDecrypting,       \* React state isDecrypting
    decryptedValue      \* React state decryptedValue

\* The state of decryptWithSignature and of the button that calls it.
decryptVars == <<pcDecrypt, decryptInput, isDecrypting, decryptedValue>>

vars == <<store, available, nextId, nCalls, address, pc, op, recordId,
          recordData, keys, records, transactionStatus, uploading,
          isRefreshing, newRecordData, decryptVars>>

Clients == {"c1", "c2"}

-----------------------------------------------------------------------------
\* Values

Undefined == <<"undefined">>
NoId == <<"none">>

AddrUpper == <<"0x", "A", "b">>
AddrLower == <<"0x", "a", "b">>
AddrOther == <<"0x", "c", "d">>

\* The wallets of the two sessions: one owner under two spellings, two
\* different owners, one session without a wallet.
Sessions ==
    { [c \in Clients |-> IF c = "c1" THEN AddrUpper ELSE a] :
        a \in {AddrLower, AddrOther, Undefined} }

\* newRecordData: the empty form of line 55 and two filled ones.
EmptyForm == [phenotype |-> "", snpCount |-> 0, effectSize |-> 0]
FormA == [phenotype |-> "diabetes", snpCount |-> 5, effectSize |-> 0]
FormB == [phenotype |-> "asthma", snpCount |-> 7, effectSize |-> 10]

\* A submission: the form as filled and Math.floor(Date.now() / 1000) of the
\* session that submits it.
Submissions == {<<FormA, 200>>, <<FormB, 100>>}

Num(n) == [lit |-> n, exps |-> 0]
NaN == [lit |-> 0, exps |-> -1]

\* null where a number | null is held (lines 58, 217).
Null == [lit |-> 0, exps |-> -2]

\* Math.exp(-value * 0.1): exp(-0) is 1, NaN stays NaN.
MathExp(value) ==
    IF value = NaN THEN NaN
    ELSE IF value = Num(0) THEN Num(1)
    ELSE [lit |-> value.lit, exps |-> value.exps + 1]

NumToString(value) == <<"num", value>>

parseFloat(s) == IF Len(s) = 2 /\ s[1] = "num" THEN s[2] ELSE NaN

btoa(s) == <<"b64", s>>

atob(s) == IF Len(s) = 2 /\ s[1] = "b64" THEN s[2] ELSE <<"bad">>

startsWithFHE(s) == Len(s) = 2 /\ s[1] = "FHE-"

\* FHEEncryptNumber without the "FHE-" prefix.
FHEEncryptNumberNoPrefix(value) == btoa(NumToString(value))

FHEEncryptNumber(value) == <<"FHE-", btoa(NumToString(value))>>

FHEDecryptNumber(encryptedData) ==
    IF startsWithFHE(encryptedData)
    THEN parseFloat(atob(encryptedData[2]))
    ELSE parseFloat(encryptedData)

\* FHEComputeGWAS without the Math.exp: the value is encrypted again as is.
FHEComputeGWASNoExp(encryptedData) ==
    FHEEncryptNumber(FHEDecryptNumber(encryptedData))

FHEComputeGWAS(encryptedData) ==
    LET value == FHEDecryptNumber(encryptedData)
        pValue == MathExp(value)
    IN  FHEEncryptNumber(pValue)

ToLowerChar(ch) ==
    CASE ch = "A" -> "a"
      [] ch = "B" -> "b"
      [] ch = "C" -> "c"
      [] ch = "D" -> "d"
      [] OTHER -> ch

toLowerCase(s) == [i \in 1..Len(s) |-> ToLowerChar(s[i])]

isOwner(addr, recordAddress) ==
    /\ addr # Undefined
    /\ toLowerCase(addr) = toLowerCase(recordAddress)

isConnected(c) == address[c] # Undefined

-----------------------------------------------------------------------------
\* The key/value contract and the codec

EmptyBytes == << >>
Garbage == <<"utf8", <<"garbage">>>>

JSONstringify(v) == <<"json", v>>
toUtf8Bytes(s) == <<"utf8", s>>
toUtf8String(bytes) == bytes[2]
JSONparseOk(s) == Len(s) = 2 /\ s[1] = "json"
JSONparse(s) == s[2]

RecordId(n) == <<"gwas-", n>>
Ids == {RecordId(n) : n \in 1..MaxIds}

IndexKey == <<"gwas_record_", <<"keys">>>>
RecordKey(id) == <<"gwas_record_", id>>
Keys == {IndexKey} \cup {RecordKey(id) : id \in Ids}

getData(key) == store[key]

setData(key, bytes) == [store EXCEPT ![key] = bytes]

\* The GWAS record document of lines 150-157; NoRecord stands for a local that
\* holds nothing yet.
RecordDoc(data, timestamp, institution, phenotype, status, snpCount) ==
    [data |-> data, timestamp |-> timestamp, institution |-> institution,
     phenotype |-> phenotype, status |-> status, snpCount |-> snpCount]

NoRecord == RecordDoc(<< >>, 0, Undefined, "", "", 0)

\* keys as uploadGWASData reads them (lines 163-168): absent or unparsable
\* bytes leave keys = [].
UploadParseKeys(keysBytes) ==
    IF Len(keysBytes) > 0 /\ JSONparseOk(toUtf8String(keysBytes))
    THEN JSONparse(toUtf8String(keysBytes))
    ELSE << >>

\* keys as loadRecords reads them (lines 99-106).
LoadParseKeys(keysBytes) ==
    IF Len(keysBytes) > 0 /\ JSONparseOk(toUtf8String(keysBytes))
    THEN JSONparse(toUtf8String(keysBytes))
    ELSE << >>

\* One iteration of the loop of loadRecords (lines 110-128) on the bytes read
\* for key: the list with the record pushed, or the list as it was when the
\* bytes are empty or do not parse.
LoadPush(lst, key, recordBytes) ==
    IF Len(recordBytes) > 0 /\ JSONparseOk(toUtf8String(recordBytes))
    THEN LET rd == JSONparse(toUtf8String(recordBytes))
         IN  Append(lst, [id |-> key,
                          encryptedData |-> rd.data,
                          timestamp |-> rd.timestamp,
                          institution |-> rd.institution,
                          phenotype |-> rd.phenotype,
                          status |-> IF rd.status = "" THEN "pending" ELSE rd.status,
                          snpCount |-> rd.snpCount])
    ELSE lst

\* loadRecords without its sort: the list in the order of the index.
SortDescOmitted(lst) == lst

\* list.sort((a, b) => b.timestamp - a.timestamp): a stable sort, descending.
RECURSIVE InsertDesc(_, _)
InsertDesc(sorted, r) ==
    IF sorted = << >> THEN <<r>>
    ELSE IF Head(sorted).timestamp >= r.timestamp
         THEN <<Head(sorted)>> \o InsertDesc(Tail(sorted), r)
         ELSE <<r>> \o sorted

RECURSIVE SortDesc(_)
SortDesc(lst) ==
    IF lst = << >> THEN << >>
    ELSE InsertDesc(SortDesc(SubSeq(lst, 1, Len(lst) - 1)), lst[Len(lst)])

-----------------------------------------------------------------------------
\* transactionStatus

TxHidden == [visible |-> FALSE, status |-> "pending", message |-> << >>]
TxPending(m) == [visible |-> TRUE, status |-> "pending", message |-> <<m>>]
TxSuccess(m) == [visible |-> TRUE, status |-> "success", message |-> <<m>>]
TxError(prefix, m) == [visible |-> TRUE, status |-> "error", message |-> <<prefix, m>>]

\* The messages a failing contract call carries.
SetDataErrors == {"user rejected transaction", "execution reverted"}
GetDataErrors == {"network error"}

\* The catch of uploadGWASData (lines 179-182).
UploadErrorStatus(m) ==
    IF m = "user rejected transaction"
    THEN [visible |-> TRUE, status |-> "error", message |-> <<"Transaction rejected by user">>]
    ELSE TxError("Submission failed: ", m)

\* The catch of processGWAS (lines 211-213).
ProcessErrorStatus(m) == TxError("Processing failed: ", m)

-----------------------------------------------------------------------------
Init ==
    /\ store = [k \in Keys |-> EmptyBytes]
    /\ available = TRUE
    /\ nextId = 0
    /\ nCalls = 0
    /\ address \in Sessions
    /\ pc = [c \in Clients |-> "idle"]
    /\ op = [c \in Clients |-> "none"]
    /\ recordId = [c \in Clients |-> NoId]
    /\ recordData = [c \in Clients |-> NoRecord]
    /\ keys = [c \in Clients |-> << >>]
    /\ records = [c \in Clients |-> << >>]
    /\ transactionStatus = [c \in Clients |-> TxHidden]
    /\ uploading = [c \in Clients |-> FALSE]
    /\ isRefreshing = [c \in Clients |-> FALSE]
    /\ newRecordData = [c \in Clients |-> EmptyForm]
    /\ pcDecrypt = [c \in Clients |-> "idle"]
    /\ decryptInput = [c \in Clients |-> << >>]
    /\ isDecrypting = [c \in Clients |-> FALSE]
    /\ decryptedValue = [c \in Clients |-> Null]

\* The handler of session c returns: its locals go out of scope.
Return(c) ==
    /\ pc' = [pc EXCEPT ![c] = "idle"]
    /\ op' = [op EXCEPT ![c] = "none"]
    /\ recordId' = [recordId EXCEPT ![c] = NoId]
    /\ recordData' = [recordData EXCEPT ![c] = NoRecord]
    /\ keys' = [keys EXCEPT ![c] = << >>]

\* loadRecords returns (its finally, line 132) to the handler that awaited
\* it; what uploadGWASData and processGWAS do after the await (lines 174-178,
\* 183, 210) is synchronous and ends the handler.
LoadReturn(c) ==
    /\ isRefreshing' = [isRefreshing EXCEPT ![c] = FALSE]
    /\ uploading' = [uploading EXCEPT ![c] = FALSE]
    /\ Return(c)

\* loadRecords as called from a handler: lines 89-92.
LoadEnter(c) ==
    /\ isRefreshing' = [isRefreshing EXCEPT ![c] = TRUE]
    /\ pc' = [pc EXCEPT ![c] = "ld_avail"]

-----------------------------------------------------------------------------
\* loadRecords (lines 88-133).  It only reads: its reads of the index and of
\* the documents are taken as one snapshot of the contract.

\* The Refresh button (line 425, disabled while isRefreshing) and the mount
\* effect (line 73): lines 89-92.
LoadStart(c) ==
    /\ pc[c] = "idle"
    /\ ~isRefreshing[c]
    /\ ~transactionStatus[c].visible
    /\ nCalls < MaxCalls
    /\ nCalls' = nCalls + 1
    /\ op' = [op EXCEPT ![c] = "load"]
    /\ LoadEnter(c)
    /\ UNCHANGED <<store, available, nextId, address, recordId,
                   recordData, keys, records, transactionStatus, uploading,
                   newRecordData>>
    /\ UNCHANGED decryptVars

\* The loop of loadRecords with one try around the whole loop: the first bad
\* document ends the listing with nothing.
RECURSIVE LoadLoopAbort(_, _, _)
LoadLoopAbort(ks, failing, lst) ==
    IF ks = << >> THEN lst
    ELSE IF \/ Head(ks) \in failing
            \/ LoadPush(lst, Head(ks), getData(RecordKey(Head(ks)))) = lst
         THEN << >>
         ELSE LoadLoopAbort(Tail(ks), failing,
                            LoadPush(lst, Head(ks), getData(RecordKey(Head(ks)))))

\* The loop of lines 110-128 over ks, starting from list lst; the getData of
\* an id in failing throws and the catch of line 127 skips it.
RECURSIVE LoadLoop(_, _, _)
LoadLoop(ks, failing, lst) ==
    IF ks = << >> THEN lst
    ELSE LoadLoop(Tail(ks), failing,
                  IF Head(ks) \in failing THEN lst
                  ELSE LoadPush(lst, Head(ks), getData(RecordKey(Head(ks)))))

\* Lines 95-96: an unavailable contract ends loadRecords before any getData.
LoadUnavailable(c) ==
    /\ pc[c] = "ld_avail"
    /\ ~available
    /\ LoadReturn(c)
    /\ UNCHANGED <<store, available, nextId, nCalls, address, records,
                   transactionStatus,
                   newRecordData>>
    /\ UNCHANGED decryptVars

\* Line 99 throws: the outer catch (line 131) logs, records stay as they were.
LoadGetKeysFails(c) ==
    /\ pc[c] = "ld_avail"
    /\ available
    /\ LoadReturn(c)
    /\ UNCHANGED <<store, available, nextId, nCalls, address, records,
                   transactionStatus,
                   newRecordData>>
    /\ UNCHANGED decryptVars

\* loadRecords reading the document of every id, indexed or not.
LoadRecordsAllDocuments(c, failing) ==
    /\ pc[c] = "ld_avail"
    /\ available
    /\ LET ks == [n \in 1..MaxIds |-> RecordId(n)]
       IN  records' = [records EXCEPT ![c] = SortDesc(LoadLoop(ks, failing, << >>))]
    /\ LoadReturn(c)
    /\ UNCHANGED <<store, available, nextId, nCalls, address,
                   transactionStatus, newRecordData>>
    /\ UNCHANGED decryptVars

\* Lines 95-132 on an available contract: the index is read and parsed, every
\* document is read, the list sorted and stored in records.
LoadRecords(c, failing) ==
    /\ pc[c] = "ld_avail"
    /\ available
    /\ LET ks == LoadParseKeys(getData(IndexKey))
       IN  /\ failing \subseteq {ks[i] : i \in 1..Len(ks)}
           /\ records' = [records EXCEPT ![c] = SortDesc(LoadLoop(ks, failing, << >>))]
    /\ LoadReturn(c)
    /\ UNCHANGED <<store, available, nextId, nCalls, address,
                   transactionStatus,
                   newRecordData>>
    /\ UNCHANGED decryptVars

-----------------------------------------------------------------------------
\* uploadGWASData (lines 135-184)

\* Line 136: without a wallet the handler alerts and returns.
UploadNotConnected(c) ==
    /\ pc[c] = "idle"
    /\ ~isConnected(c)
    /\ pc' = [pc EXCEPT ![c] = "alert"]
    /\ UNCHANGED <<store, available, nextId, nCalls, address, op, recordId,
                   recordData, keys, records, transactionStatus,
                   uploading, isRefreshing,
                   newRecordData>>
    /\ UNCHANGED decryptVars

\* uploadGWASData generating the same id in every call.
UploadStartSameId(c, form, now) ==
    /\ pc[c] = "idle"
    /\ isConnected(c)
    /\ ~uploading[c]
    /\ ~transactionStatus[c].visible
    /\ nCalls < MaxCalls
    /\ nCalls' = nCalls + 1
    /\ nextId < MaxIds
    /\ nextId' = nextId + 1
    /\ uploading' = [uploading EXCEPT ![c] = TRUE]
    /\ transactionStatus' = [transactionStatus EXCEPT ![c] =
           TxPending("Encrypting GWAS data with Zama FHE...")]
    /\ recordId' = [recordId EXCEPT ![c] = RecordId(1)]
    /\ recordData' = [recordData EXCEPT ![c] =
           RecordDoc(FHEEncryptNumber(Num(form.effectSize)), now, address[c],
                     form.phenotype, "pending", form.snpCount)]
    /\ newRecordData' = [newRecordData EXCEPT ![c] = form]
    /\ op' = [op EXCEPT ![c] = "upload"]
    /\ pc' = [pc EXCEPT ![c] = "up_setdoc"]
    /\ UNCHANGED <<store, available, address, keys, records,
                   isRefreshing>>
    /\ UNCHANGED decryptVars

\* Lines 137-160, up to the first setData being issued.  The Submit button
\* is disabled while uploading (line 572).
UploadStart(c, form, now) ==
    /\ pc[c] = "idle"
    /\ isConnected(c)
    /\ ~uploading[c]
    /\ ~transactionStatus[c].visible
    /\ nCalls < MaxCalls
    /\ nCalls' = nCalls + 1
    /\ nextId < MaxIds
    /\ nextId' = nextId + 1
    /\ uploading' = [uploading EXCEPT ![c] = TRUE]
    /\ transactionStatus' = [transactionStatus EXCEPT ![c] =
           TxPending("Encrypting GWAS data with Zama FHE...")]
    /\ recordId' = [recordId EXCEPT ![c] = RecordId(nextId + 1)]
    /\ recordData' = [recordData EXCEPT ![c] =
           RecordDoc(FHEEncryptNumber(Num(form.effectSize)), now, address[c],
                     form.phenotype, "pending", form.snpCount)]
    /\ newRecordData' = [newRecordData EXCEPT ![c] = form]
    /\ op' = [op EXCEPT ![c] = "upload"]
    /\ pc' = [pc EXCEPT ![c] = "up_setdoc"]
    /\ UNCHANGED <<store, available, address, keys, records,
                   isRefreshing>>
    /\ UNCHANGED decryptVars

\* The catch of uploadGWASData without the finally of line 183.
UploadCatchNoFinally(c, m) ==
    /\ transactionStatus' = [transactionStatus EXCEPT ![c] = UploadErrorStatus(m)]
    /\ uploading' = uploading
    /\ Return(c)

\* The catch and the finally of uploadGWASData (lines 179-183).
UploadCatch(c, m) ==
    /\ transactionStatus' = [transactionStatus EXCEPT ![c] = UploadErrorStatus(m)]
    /\ uploading' = [uploading EXCEPT ![c] = FALSE]
    /\ Return(c)

\* uploadGWASData without its first setData: the document is never written.
UploadSetRecordSkipped(c) ==
    /\ pc[c] = "up_setdoc"
    /\ pc' = [pc EXCEPT ![c] = "up_getkeys"]
    /\ UNCHANGED <<store, available, nextId, nCalls, address, op, recordId,
                   recordData, keys, records, transactionStatus,
                   uploading, isRefreshing, newRecordData>>
    /\ UNCHANGED decryptVars

\* Line 160: the document is written.
UploadSetRecord(c) ==
    /\ pc[c] = "up_setdoc"
    /\ store' = setData(RecordKey(recordId[c]),
                        toUtf8Bytes(JSONstringify(recordData[c])))
    /\ pc' = [pc EXCEPT ![c] = "up_getkeys"]
    /\ UNCHANGED <<available, nextId, nCalls, address, op, recordId,
                   recordData, keys, records, transactionStatus,
                   uploading, isRefreshing,
                   newRecordData>>
    /\ UNCHANGED decryptVars

\* uploadGWASData pushing the new id on an empty list whatever the index
\* holds.
UploadGetKeysFresh(c) ==
    /\ pc[c] = "up_getkeys"
    /\ keys' = [keys EXCEPT ![c] = <<recordId[c]>>]
    /\ pc' = [pc EXCEPT ![c] = "up_setkeys"]
    /\ UNCHANGED <<store, available, nextId, nCalls, address, op, recordId,
                   recordData, records, transactionStatus, uploading,
                   isRefreshing, newRecordData>>
    /\ UNCHANGED decryptVars

\* uploadGWASData without the try of line 166: an index that does not parse
\* throws to the catch of line 179.
UploadGetKeysStrict(c) ==
    /\ pc[c] = "up_getkeys"
    /\ LET keysBytes == getData(IndexKey)
       IN  IF Len(keysBytes) > 0 /\ ~JSONparseOk(toUtf8String(keysBytes))
           THEN /\ UploadCatch(c, "Unexpected token")
                /\ UNCHANGED <<records, isRefreshing, newRecordData>>
           ELSE /\ keys' = [keys EXCEPT ![c] =
                       Append(UploadParseKeys(keysBytes), recordId[c])]
                /\ pc' = [pc EXCEPT ![c] = "up_setkeys"]
                /\ UNCHANGED <<op, recordId, recordData, records,
                               transactionStatus, uploading, isRefreshing,
                               newRecordData>>
    /\ UNCHANGED <<store, available, nextId, nCalls, address>>
    /\ UNCHANGED decryptVars

\* Lines 163-169: the index is read, parsed and the new id pushed.
UploadGetKeys(c) ==
    /\ pc[c] = "up_getkeys"
    /\ keys' = [keys EXCEPT ![c] =
           Append(UploadParseKeys(getData(IndexKey)), recordId[c])]
    /\ pc' = [pc EXCEPT ![c] = "up_setkeys"]
    /\ UNCHANGED <<store, available, nextId, nCalls, address, op, recordId,
                   recordData, records, transactionStatus, uploading,
                   isRefreshing,
                   newRecordData>>
    /\ UNCHANGED decryptVars

\* uploadGWASData appending to the index as it stands when the write lands
\* (an atomic append in the contract) instead of writing the keys it read.
UploadSetKeysAtomic(c) ==
    /\ pc[c] = "up_setkeys"
    /\ store' = setData(IndexKey,
           toUtf8Bytes(JSONstringify(
               Append(UploadParseKeys(getData(IndexKey)), recordId[c]))))
    /\ transactionStatus' = [transactionStatus EXCEPT ![c] =
           TxSuccess("Encrypted GWAS data submitted securely!")]
    /\ LoadEnter(c)
    /\ UNCHANGED <<available, nextId, nCalls, address, op, recordId,
                   recordData, keys, records, uploading, newRecordData>>
    /\ UNCHANGED decryptVars

\* Lines 170-173: the index is written, then loadRecords is awaited.
UploadSetKeys(c) ==
    /\ pc[c] = "up_setkeys"
    /\ store' = setData(IndexKey, toUtf8Bytes(JSONstringify(keys[c])))
    /\ transactionStatus' = [transactionStatus EXCEPT ![c] =
           TxSuccess("Encrypted GWAS data submitted securely!")]
    /\ LoadEnter(c)
    /\ UNCHANGED <<available, nextId, nCalls, address, op, recordId,
                   recordData, keys, records, uploading,
                   newRecordData>>
    /\ UNCHANGED decryptVars

\* A setData of lines 160 or 170 is rejected or reverts.
UploadSetDataFails(c, m) ==
    /\ pc[c] \in {"up_setdoc", "up_setkeys"}
    /\ UploadCatch(c, m)
    /\ UNCHANGED <<store, available, nextId, nCalls, address, records,
                   isRefreshing,
                   newRecordData>>
    /\ UNCHANGED decryptVars

\* The getData of line 163 throws.
UploadGetKeysFails(c, m) ==
    /\ pc[c] = "up_getkeys"
    /\ UploadCatch(c, m)
    /\ UNCHANGED <<store, available, nextId, nCalls, address, records,
                   isRefreshing,
                   newRecordData>>
    /\ UNCHANGED decryptVars

-----------------------------------------------------------------------------
\* processGWAS (lines 186-215)

\* Line 187.
ProcessNotConnected(c) ==
    /\ pc[c] = "idle"
    /\ ~isConnected(c)
    /\ pc' = [pc EXCEPT ![c] = "alert"]
    /\ UNCHANGED <<store, available, nextId, nCalls, address, op, recordId,
                   recordData, keys, records, transactionStatus,
                   uploading, isRefreshing,
                   newRecordData>>
    /\ UNCHANGED decryptVars

\* Lines 188-194, up to the getData being issued.
ProcessStart(c, id) ==
    /\ pc[c] = "idle"
    /\ isConnected(c)
    /\ ~transactionStatus[c].visible
    /\ nCalls < MaxCalls
    /\ nCalls' = nCalls + 1
    /\ transactionStatus' = [transactionStatus EXCEPT ![c] =
           TxPending("Processing encrypted GWAS data with FHE...")]
    /\ recordId' = [recordId EXCEPT ![c] = id]
    /\ op' = [op EXCEPT ![c] = "process"]
    /\ pc' = [pc EXCEPT ![c] = "pr_get"]
    /\ UNCHANGED <<store, available, nextId, address, recordData, keys, records, uploading, isRefreshing,
                   newRecordData>>
    /\ UNCHANGED decryptVars

\* The catch of processGWAS (lines 211-214).
ProcessCatch(c, m) ==
    /\ transactionStatus' = [transactionStatus EXCEPT ![c] = ProcessErrorStatus(m)]
    /\ Return(c)

\* updatedRecord marking a record that was not pending as an error.
UpdatedRecordFlagsRepeat(rd) ==
    [rd EXCEPT !.status = IF rd.status = "pending" THEN "processed" ELSE "error",
               !.data = FHEComputeGWAS(rd.data)]

\* updatedRecord with a timestamp of its own instead of the spread one.
UpdatedRecordRestamped(rd) ==
    [rd EXCEPT !.status = "processed", !.data = FHEComputeGWAS(rd.data),
               !.timestamp = 0]

\* updatedRecord of line 205.
UpdatedRecord(rd) ==
    [rd EXCEPT !.status = "processed", !.data = FHEComputeGWAS(rd.data)]

\* processGWAS without the length check of line 195: JSON.parse throws on the
\* empty text.
ProcessGetRecordNoLengthCheck(c) ==
    /\ pc[c] = "pr_get"
    /\ LET recordBytes == getData(RecordKey(recordId[c]))
       IN  IF Len(recordBytes) = 0 \/ ~JSONparseOk(toUtf8String(recordBytes))
           THEN ProcessCatch(c, "Unexpected token")
           ELSE /\ recordData' = [recordData EXCEPT ![c] =
                       JSONparse(toUtf8String(recordBytes))]
                /\ pc' = [pc EXCEPT ![c] = "pr_set"]
                /\ UNCHANGED <<op, recordId, keys, transactionStatus>>
    /\ UNCHANGED <<store, available, nextId, nCalls, address, records,
                   uploading, isRefreshing, newRecordData>>
    /\ UNCHANGED decryptVars

\* processGWAS rejecting a document that is already processed.
ProcessGetRecordGuarded(c) ==
    /\ pc[c] = "pr_get"
    /\ LET recordBytes == getData(RecordKey(recordId[c]))
       IN  IF Len(recordBytes) = 0
           THEN ProcessCatch(c, "Record not found")
           ELSE IF ~JSONparseOk(toUtf8String(recordBytes))
           THEN ProcessCatch(c, "Unexpected token")
           ELSE IF JSONparse(toUtf8String(recordBytes)).status = "processed"
           THEN ProcessCatch(c, "Already processed")
           ELSE /\ recordData' = [recordData EXCEPT ![c] =
                       JSONparse(toUtf8String(recordBytes))]
                /\ pc' = [pc EXCEPT ![c] = "pr_set"]
                /\ UNCHANGED <<op, recordId, keys, transactionStatus>>
    /\ UNCHANGED <<store, available, nextId, nCalls, address, records,
                   uploading, isRefreshing, newRecordData>>
    /\ UNCHANGED decryptVars

\* Lines 194-206: the document is read; empty bytes and unparsable bytes
\* throw; otherwise the derived document is built and its setData issued.
ProcessGetRecord(c) ==
    /\ pc[c] = "pr_get"
    /\ LET recordBytes == getData(RecordKey(recordId[c]))
       IN  IF Len(recordBytes) = 0
           THEN ProcessCatch(c, "Record not found")
           ELSE IF ~JSONparseOk(toUtf8String(recordBytes))
           THEN ProcessCatch(c, "Unexpected token")
           ELSE /\ recordData' = [recordData EXCEPT ![c] =
                       JSONparse(toUtf8String(recordBytes))]
                /\ pc' = [pc EXCEPT ![c] = "pr_set"]
                /\ UNCHANGED <<op, recordId, keys, transactionStatus>>
    /\ UNCHANGED <<store, available, nextId, nCalls, address, records,
                   uploading, isRefreshing,
                   newRecordData>>
    /\ UNCHANGED decryptVars

\* The getData of line 194 throws.
ProcessGetRecordFails(c, m) ==
    /\ pc[c] = "pr_get"
    /\ ProcessCatch(c, m)
    /\ UNCHANGED <<store, available, nextId, nCalls, address, records,
                   uploading, isRefreshing,
                   newRecordData>>
    /\ UNCHANGED decryptVars

\* processGWAS deriving from the document stored when its write lands (a
\* read-modify-write inside the contract) instead of the document it read.
ProcessSetDataRereads(c) ==
    /\ pc[c] = "pr_set"
    /\ store' = setData(RecordKey(recordId[c]),
                        toUtf8Bytes(JSONstringify(UpdatedRecord(
                            JSONparse(toUtf8String(getData(RecordKey(recordId[c]))))))))
    /\ transactionStatus' = [transactionStatus EXCEPT ![c] =
           TxSuccess("FHE GWAS processing completed!")]
    /\ LoadEnter(c)
    /\ UNCHANGED <<available, nextId, nCalls, address, op, recordId,
                   recordData, keys, records, uploading, newRecordData>>
    /\ UNCHANGED decryptVars

\* Lines 206-209: the derived document is written, then loadRecords awaited.
ProcessSetData(c) ==
    /\ pc[c] = "pr_set"
    /\ store' = setData(RecordKey(recordId[c]),
                        toUtf8Bytes(JSONstringify(UpdatedRecord(recordData[c]))))
    /\ transactionStatus' = [transactionStatus EXCEPT ![c] =
           TxSuccess("FHE GWAS processing completed!")]
    /\ LoadEnter(c)
    /\ UNCHANGED <<available, nextId, nCalls, address, op, recordId,
                   recordData, keys, records, uploading,
                   newRecordData>>
    /\ UNCHANGED decryptVars

\* The setData of line 206 is rejected or reverts.
ProcessSetDataFails(c, m) ==
    /\ pc[c] = "pr_set"
    /\ ProcessCatch(c, m)
    /\ UNCHANGED <<store, available, nextId, nCalls, address, records,
                   uploading, isRefreshing,
                   newRecordData>>
    /\ UNCHANGED decryptVars

-----------------------------------------------------------------------------
\* decryptWithSignature (lines 217-227) and the button that calls it (lines
\* 630-643) on record i of the list, the record selected at line 448.

repositoryVars == <<store, available, nextId, address, pc, op, recordId,
                    recordData, keys, records, transactionStatus, uploading,
                    isRefreshing, newRecordData>>

\* Line 218: without a wallet the call alerts and returns null.
DecryptNotConnected(c, i) ==
    /\ pcDecrypt[c] = "idle"
    /\ i \in 1..Len(records[c])
    /\ ~isDecrypting[c]
    /\ decryptedValue[c] = Null
    /\ ~isConnected(c)
    /\ pcDecrypt' = [pcDecrypt EXCEPT ![c] = "alert"]
    /\ UNCHANGED <<repositoryVars, nCalls, decryptInput, isDecrypting,
                   decryptedValue>>

\* The alert of line 218 is dismissed; line 637 leaves decryptedValue null.
DecryptDismissAlert(c) ==
    /\ pcDecrypt[c] = "alert"
    /\ pcDecrypt' = [pcDecrypt EXCEPT ![c] = "idle"]
    /\ UNCHANGED <<repositoryVars, nCalls, decryptInput, isDecrypting,
                   decryptedValue>>

\* Lines 633-636 and 218-222, up to signMessageAsync being issued.  The
\* button is disabled while isDecrypting (line 640) and hides the value
\* instead when one is shown (line 633).
DecryptStart(c, i) ==
    /\ pcDecrypt[c] = "idle"
    /\ i \in 1..Len(records[c])
    /\ ~isDecrypting[c]
    /\ decryptedValue[c] = Null
    /\ isConnected(c)
    /\ nCalls < MaxCalls
    /\ nCalls' = nCalls + 1
    /\ isDecrypting' = [isDecrypting EXCEPT ![c] = TRUE]
    /\ decryptInput' = [decryptInput EXCEPT ![c] = records[c][i].encryptedData]
    /\ pcDecrypt' = [pcDecrypt EXCEPT ![c] = "de_sign"]
    /\ UNCHANGED <<repositoryVars, decryptedValue>>

\* decryptWithSignature returns value to the button's handler: the finally
\* of line 226, then line 637.
DecryptReturn(c, value) ==
    /\ isDecrypting' = [isDecrypting EXCEPT ![c] = FALSE]
    /\ decryptedValue' = [decryptedValue EXCEPT ![c] =
           IF value # Null THEN value ELSE @]
    /\ decryptInput' = [decryptInput EXCEPT ![c] = << >>]
    /\ pcDecrypt' = [pcDecrypt EXCEPT ![c] = "idle"]

\* Line 222 resolves: the wallet has signed; the timer of line 223 starts.
DecryptSigned(c) ==
    /\ pcDecrypt[c] = "de_sign"
    /\ pcDecrypt' = [pcDecrypt EXCEPT ![c] = "de_wait"]
    /\ UNCHANGED <<repositoryVars, nCalls, decryptInput, isDecrypting,
                   decryptedValue>>

\* decryptWithSignature decoding although the signing was rejected.
DecryptSignFailsIgnored(c) ==
    /\ pcDecrypt[c] = "de_sign"
    /\ DecryptReturn(c, FHEDecryptNumber(decryptInput[c]))
    /\ UNCHANGED <<repositoryVars, nCalls>>

\* Line 222 rejects: the catch of line 225 returns null.
DecryptSignFails(c) ==
    /\ pcDecrypt[c] = "de_sign"
    /\ DecryptReturn(c, Null)
    /\ UNCHANGED <<repositoryVars, nCalls>>

\* Lines 223-224: the timer fires and the decoded value is returned.
DecryptDecode(c) ==
    /\ pcDecrypt[c] = "de_wait"
    /\ DecryptReturn(c, FHEDecryptNumber(decryptInput[c]))
    /\ UNCHANGED <<repositoryVars, nCalls>>

\* Lines 633-634 (Hide Value) and 588-591 (the dialog is closed).
HideValue(c) ==
    /\ decryptedValue[c] # Null
    /\ decryptedValue' = [decryptedValue EXCEPT ![c] = Null]
    /\ UNCHANGED <<repositoryVars, nCalls, pcDecrypt, decryptInput,
                   isDecrypting>>

-----------------------------------------------------------------------------
\* The environment of the handlers

\* The alert of lines 136 and 187 is dismissed.
DismissAlert(c) ==
    /\ pc[c] = "alert"
    /\ pc' = [pc EXCEPT ![c] = "idle"]
    /\ UNCHANGED <<store, available, nextId, nCalls, address, op, recordId,
                   recordData, keys, records, transactionStatus,
                   uploading, isRefreshing,
                   newRecordData>>
    /\ UNCHANGED decryptVars

\* The timers of lines 174, 182, 210 and 213 hide the status of a handler
\* that has ended; the one of line 174 also empties the form.
HideStatus(c) ==
    /\ pc[c] = "idle"
    /\ transactionStatus[c].visible
    /\ transactionStatus' = [transactionStatus EXCEPT ![c] = TxHidden]
    /\ newRecordData' = [newRecordData EXCEPT ![c] =
           IF transactionStatus[c] = TxSuccess("Encrypted GWAS data submitted securely!")
           THEN EmptyForm ELSE @]
    /\ UNCHANGED <<store, available, nextId, nCalls, address, pc, op,
                   recordId, recordData, keys, records, uploading,
                   isRefreshing>>
    /\ UNCHANGED decryptVars

\* The page is closed or reloaded while a handler runs: the handler stops
\* where it stands and the React state is the initial one (lines 49-54).
Reload(c) ==
    /\ \/ pc[c] \notin {"idle", "alert"}
       \/ pcDecrypt[c] \notin {"idle", "alert"}
    /\ records' = [records EXCEPT ![c] = << >>]
    /\ transactionStatus' = [transactionStatus EXCEPT ![c] = TxHidden]
    /\ uploading' = [uploading EXCEPT ![c] = FALSE]
    /\ isRefreshing' = [isRefreshing EXCEPT ![c] = FALSE]
    /\ newRecordData' = [newRecordData EXCEPT ![c] = EmptyForm]
    /\ Return(c)
    /\ pcDecrypt' = [pcDecrypt EXCEPT ![c] = "idle"]
    /\ decryptInput' = [decryptInput EXCEPT ![c] = << >>]
    /\ isDecrypting' = [isDecrypting EXCEPT ![c] = FALSE]
    /\ decryptedValue' = [decryptedValue EXCEPT ![c] = Null]
    /\ UNCHANGED <<store, available, nextId, nCalls, address>>

\* The contract's isAvailable() changes its answer.
SetAvailable ==
    /\ available' = ~available
    /\ UNCHANGED <<store, nextId, nCalls, address, pc, op, recordId,
                   recordData, keys, records, transactionStatus,
                   uploading, isRefreshing,
                   newRecordData>>
    /\ UNCHANGED decryptVars

Next ==
    \/ \E c \in Clients : LoadStart(c)
    \/ \E c \in Clients : LoadUnavailable(c)
    \/ \E c \in Clients : LoadGetKeysFails(c)
    \/ \E c \in Clients, failing \in SUBSET Ids : LoadRecords(c, failing)
    \/ \E c \in Clients : UploadNotConnected(c)
    \/ \E c \in Clients, sub \in Submissions : UploadStart(c, sub[1], sub[2])
    \/ \E c \in Clients : UploadSetRecord(c)
    \/ \E c \in Clients : UploadGetKeys(c)
    \/ \E c \in Clients : UploadSetKeys(c)
    \/ \E c \in Clients, m \in SetDataErrors : UploadSetDataFails(c, m)
    \/ \E c \in Clients, m \in GetDataErrors : UploadGetKeysFails(c, m)
    \/ \E c \in Clients : ProcessNotConnected(c)
    \/ \E c \in Clients, id \in Ids : ProcessStart(c, id)
    \/ \E c \in Clients : ProcessGetRecord(c)
    \/ \E c \in Clients, m \in GetDataErrors : ProcessGetRecordFails(c, m)
    \/ \E c \in Clients : ProcessSetData(c)
    \/ \E c \in Clients, m \in SetDataErrors : ProcessSetDataFails(c, m)
    \/ \E c \in Clients : DismissAlert(c)
    \/ \E c \in Clients : HideStatus(c)
    \/ \E c \in Clients : Reload(c)
    \/ SetAvailable

\* The sessions alone write the contract.
Spec == Init /\ [][Next]_vars

\* Another user of the contract overwrites a stored record document with
\* bytes that are empty or do not parse.
ExternalSetData(id, bytes) ==
    /\ Len(store[RecordKey(id)]) > 0
    /\ JSONparseOk(toUtf8String(store[RecordKey(id)]))
    /\ nCalls < MaxCalls
    /\ nCalls' = nCalls + 1
    /\ store' = setData(RecordKey(id), bytes)
    /\ UNCHANGED <<available, nextId, address, pc, op, recordId,
                   recordData, keys, records, transactionStatus,
                   uploading, isRefreshing, newRecordData>>
    /\ UNCHANGED decryptVars

\* Another user of the contract overwrites the stored index with bytes that
\* do not parse.
ExternalSetKeys(bytes) ==
    /\ Len(store[IndexKey]) > 0
    /\ JSONparseOk(toUtf8String(store[IndexKey]))
    /\ nCalls < MaxCalls
    /\ nCalls' = nCalls + 1
    /\ store' = setData(IndexKey, bytes)
    /\ UNCHANGED <<available, nextId, address, pc, op, recordId,
                   recordData, keys, records, transactionStatus,
                   uploading, isRefreshing, newRecordData>>
    /\ UNCHANGED decryptVars

NextExt ==
    \/ Next
    \/ \E id \in Ids, bytes \in {EmptyBytes, Garbage} : ExternalSetData(id, bytes)
    \/ \E bytes \in {Garbage} : ExternalSetKeys(bytes)

\* Other users of the contract write it too.
SpecExt == Init /\ [][NextExt]_vars

NextDecrypt ==
    \/ Next
    \/ \E c \in Clients, i \in 1..MaxIds : DecryptNotConnected(c, i)
    \/ \E c \in Clients : DecryptDismissAlert(c)
    \/ \E c \in Clients, i \in 1..MaxIds : DecryptStart(c, i)
    \/ \E c \in Clients : DecryptSigned(c)
    \/ \E c \in Clients : DecryptSignFails(c)
    \/ \E c \in Clients : DecryptDecode(c)
    \/ \E c \in Clients : HideValue(c)

\* The sessions also reveal values of the records they list.
SpecDecrypt == Init /\ [][NextDecrypt]_vars

-----------------------------------------------------------------------------
\* What the claims read from the contract

Range(seq) == {seq[i] : i \in 1..Len(seq)}

WellFormed(bytes) == Len(bytes) > 0 /\ JSONparseOk(toUtf8String(bytes))

\* The stored index, an absent index being the empty sequence.
StoredIndex ==
    IF WellFormed(store[IndexKey]) THEN JSONparse(toUtf8String(store[IndexKey]))
    ELSE << >>

\* The stored document of id; only read where HasDoc(id).
HasDoc(id) == WellFormed(store[RecordKey(id)])
StoredDoc(id) == JSONparse(toUtf8String(store[RecordKey(id)]))

UploadSuccess == TxSuccess("Encrypted GWAS data submitted securely!")

\* The document bytes st holds for id, parsed.
DocIn(st, id) == JSONparse(toUtf8String(st[RecordKey(id)]))

\* `FHE-${btoa(v.toString())}` written out.
EncodedText(v) == <<"FHE-", <<"b64", <<"num", v>> >> >>

-----------------------------------------------------------------------------
\* C1: a Process call by a session whose address is not, ignoring case, the
\* institution of the record it has read fails with an authorization error
\* before any setData: such a call never stands at its setData (line 206) nor
\* past it.
C1_NonOwnerProcessRejected ==
    \A c \in Clients :
        (/\ op[c] = "process"
         /\ recordData[c] # NoRecord
         /\ ~isOwner(address[c], recordData[c].institution))
        => pc[c] \notin {"pr_set", "ld_avail"}

\* C2: when the owner's Process call has read a pending document and its
\* setData succeeds, the document stored under the same key has status
\* processed and data Encode(exp(-0.1 * Decode(old data))), old data being the
\* data of the document the call read.
C2_OwnerProcessDerives ==
    [][\A c \in Clients :
        (/\ ProcessSetData(c)
         /\ isOwner(address[c], recordData[c].institution)
         /\ recordData[c].status = "pending")
        => /\ WellFormed(store'[RecordKey(recordId[c])])
           /\ DocIn(store', recordId[c]).status = "processed"
           /\ DocIn(store', recordId[c]).data =
                  EncodedText(MathExp(FHEDecryptNumber(recordData[c].data)))]_vars

C2_Witness ==
    \E c \in Clients :
        /\ op[c] = "process"
        /\ pc[c] = "ld_avail"
        /\ isOwner(address[c], recordData[c].institution)
        /\ recordData[c].status = "pending"
        /\ recordData[c].data = EncodedText(Num(10))
        /\ HasDoc(recordId[c])
        /\ StoredDoc(recordId[c]).status = "processed"
        /\ FHEDecryptNumber(StoredDoc(recordId[c]).data) = [lit |-> 10, exps |-> 1]

\* C3: when two Create calls have both read the empty index and both have
\* completed their two writes, both documents are stored and the index holds
\* one id only, that of the call whose index write landed last.
C3_CreateRaceLosesAnId ==
    (\A c \in Clients :
        op[c] = "upload" /\ pc[c] = "ld_avail" /\ Len(keys[c]) = 1)
    => /\ \A c \in Clients : HasDoc(recordId[c])
       /\ Len(StoredIndex) = 1
       /\ \E c \in Clients : StoredIndex = <<recordId[c]>>

C3_Witness ==
    /\ \A c \in Clients :
          /\ op[c] = "upload" /\ pc[c] = "ld_avail" /\ Len(keys[c]) = 1
          /\ transactionStatus[c] = UploadSuccess
          /\ HasDoc(recordId[c])
    /\ \A c, d \in Clients : c # d => recordId[c] # recordId[d]
    /\ Len(StoredIndex) = 1

\* C4: every id in the stored index has a non-empty document.
C4_IndexedIdsHaveDocuments ==
    \A id \in Range(StoredIndex) : Len(store[RecordKey(id)]) > 0

\* An index that holds an id while the document of another Create, which
\* did not reach its index write, is stored.
C4_Witness ==
    /\ Len(StoredIndex) > 0
    /\ \E id \in Ids : HasDoc(id) /\ id \notin Range(StoredIndex)
    /\ \A c \in Clients : pc[c] = "idle"

\* C5, as claimed: an id in the stored index is in it in every later state.
C5_AppendOnly ==
    [][\A id \in Ids :
        id \in Range(StoredIndex) => id \in Range(StoredIndex)']_vars

\* C5, amended: only the index write of a Create changes the stored index;
\* the keys a Create holds after its index read are the index as read with
\* its id appended, and its index write stores these keys.  So a Create keeps
\* every id the index held when it read it.
C5_AppendOnlySinceRead ==
    [][/\ \A c \in Clients :
            UploadGetKeys(c) =>
                /\ \A id \in Range(StoredIndex) : id \in Range(keys'[c])
                /\ recordId[c] \in Range(keys'[c])
       /\ \A c \in Clients :
            UploadSetKeys(c) =>
                \A id \in Range(keys[c]) : id \in Range(StoredIndex)'
       /\ (\A c \in Clients : ~UploadSetKeys(c)) => StoredIndex' = StoredIndex
      ]_vars

\* The second Create has appended to the index the first one wrote.
C5_Witness ==
    /\ Len(StoredIndex) = 2
    /\ \E c \in Clients : op[c] = "upload" /\ pc[c] = "ld_avail"

\* C6: after every step each stored document has status pending or
\* processed, and a document that had status processed before the step still
\* has it.
C6_ProcessedIsTerminal ==
    [][\A id \in Ids :
        /\ WellFormed(store'[RecordKey(id)]) =>
               DocIn(store', id).status \in {"pending", "processed"}
        /\ (HasDoc(id) /\ StoredDoc(id).status = "processed") =>
               /\ WellFormed(store'[RecordKey(id)])
               /\ DocIn(store', id).status = "processed"]_vars

\* A Process call on a document that was already processed has written it.
C6_Witness ==
    \E c \in Clients :
        /\ op[c] = "process"
        /\ pc[c] = "ld_avail"
        /\ recordData[c].status = "processed"
        /\ HasDoc(recordId[c])
        /\ StoredDoc(recordId[c]).status = "processed"

\* C7: the first setData of a Create stores, under the key of the new id, a
\* document with status pending, data Encode(effectSize) (which decodes back
\* to effectSize), the caller's address as institution and the phenotype and
\* snpCount of the form; the keys it holds after reading the index are the
\* stored index (empty when absent) with the new id appended, and its second
\* setData stores these keys as the index.
C7_CreateWritesDocumentThenIndex ==
    [][\A c \in Clients :
        /\ UploadSetRecord(c) =>
              /\ isConnected(c)
              /\ WellFormed(store'[RecordKey(recordId[c])])
              /\ LET doc == DocIn(store', recordId[c])
                 IN  /\ doc.status = "pending"
                     /\ doc.data = EncodedText(Num(newRecordData[c].effectSize))
                     /\ FHEDecryptNumber(doc.data) = Num(newRecordData[c].effectSize)
                     /\ doc.institution = address[c]
                     /\ doc.phenotype = newRecordData[c].phenotype
                     /\ doc.snpCount = newRecordData[c].snpCount
        /\ UploadGetKeys(c) => keys'[c] = Append(StoredIndex, recordId[c])
        /\ UploadSetKeys(c) =>
              /\ WellFormed(store'[IndexKey])
              /\ StoredIndex' = keys[c]
              /\ transactionStatus'[c] = UploadSuccess]_vars

\* A Create that found an index has completed.
C7_Witness ==
    \E c \in Clients :
        /\ op[c] = "upload"
        /\ pc[c] = "ld_avail"
        /\ transactionStatus[c] = UploadSuccess
        /\ Len(keys[c]) = 2
        /\ StoredIndex = keys[c]
        /\ keys[c][2] = recordId[c]
        /\ HasDoc(recordId[c])
        /\ StoredDoc(recordId[c]).data = EncodedText(Num(10))

\* C8: when the getData of Process answers empty bytes, the call ends there
\* with transactionStatus error "Processing failed: Record not found" and the
\* contract is as it was.
C8_ProcessNotFound ==
    [][\A c \in Clients :
        (ProcessGetRecord(c) /\ Len(getData(RecordKey(recordId[c]))) = 0)
        => /\ store' = store
           /\ pc'[c] = "idle"
           /\ transactionStatus'[c] = TxError("Processing failed: ", "Record not found")
      ]_vars

C8_Witness ==
    \E c \in Clients :
        /\ pc[c] = "idle"
        /\ transactionStatus[c] = TxError("Processing failed: ", "Record not found")

\* C9: a handler that a session starts while isAvailable() answers false
\* is a no-op: its start issues neither the first setData of Create nor the
\* getData of Process, and it shows no transaction status.
C9_UnavailableIsNoOp ==
    [][\A c \in Clients :
        (~available /\ pc[c] = "idle")
        => /\ pc'[c] \notin {"up_setdoc", "pr_get"}
           /\ transactionStatus'[c].visible =>
                  transactionStatus'[c] = transactionStatus[c]]_vars

\* C10: whatever documents of the index are absent or unparsable and whatever
\* getData calls throw, loadRecords returns normally with exactly one record
\* for every other entry of the index, holding the fields of its document.
GoodEntries(failing) ==
    {i \in 1..Len(StoredIndex) :
        StoredIndex[i] \notin failing /\ HasDoc(StoredIndex[i])}

C10_ListSkipsBadRecords ==
    [][\A c \in Clients, failing \in SUBSET Ids :
        LoadRecords(c, failing) =>
            /\ pc'[c] = "idle"
            /\ ~isRefreshing'[c]
            /\ Len(records'[c]) = Cardinality(GoodEntries(failing))
            /\ {r.id : r \in Range(records'[c])} =
                   {StoredIndex[i] : i \in GoodEntries(failing)}
            /\ \A r \in Range(records'[c]) :
                   /\ r.encryptedData = StoredDoc(r.id).data
                   /\ r.timestamp = StoredDoc(r.id).timestamp
                   /\ r.institution = StoredDoc(r.id).institution
                   /\ r.phenotype = StoredDoc(r.id).phenotype
                   /\ r.status = StoredDoc(r.id).status
                   /\ r.snpCount = StoredDoc(r.id).snpCount]_vars

\* A listing of one record from an index of two ids, the other document
\* being unparsable.
C10_Witness ==
    \E c \in Clients :
        /\ pc[c] = "idle"
        /\ Len(StoredIndex) = 2
        /\ \E id \in Range(StoredIndex) : store[RecordKey(id)] = Garbage
        /\ Len(records[c]) = 1
        /\ HasDoc(records[c][1].id)

\* C11: the list loadRecords stores is sorted descending by timestamp (each
\* record's timestamp is at least that of the next one) and is a permutation
\* of the records its loop pushed; records with timestamps 100, 300, 200 sort
\* to 300, 200, 100.
IsSortedDesc(lst) ==
    \A i \in 1..(Len(lst) - 1) : lst[i].timestamp >= lst[i + 1].timestamp

IsPermutation(s, t) ==
    /\ Len(s) = Len(t)
    /\ \E f \in [1..Len(s) -> 1..Len(s)] :
          /\ \A i, j \in 1..Len(s) : f[i] = f[j] => i = j
          /\ \A i \in 1..Len(s) : t[i] = s[f[i]]

\* A listed record with timestamp ts.
Listed(ts) ==
    [id |-> RecordId(1), encryptedData |-> EncodedText(Num(0)),
     timestamp |-> ts, institution |-> AddrUpper, phenotype |-> "diabetes",
     status |-> "pending", snpCount |-> 5]

C11_ListSortedDescending ==
    [][/\ \A c \in Clients, failing \in SUBSET Ids :
            LoadRecords(c, failing) =>
                /\ IsSortedDesc(records'[c])
                /\ IsPermutation(
                       LoadLoop(LoadParseKeys(getData(IndexKey)), failing, << >>),
                       records'[c])
       /\ SortDesc(<<Listed(100), Listed(300), Listed(200)>>) =
              <<Listed(300), Listed(200), Listed(100)>>
      ]_vars

\* A listing of two records whose order is the reverse of the index's.
C11_Witness ==
    \E c \in Clients :
        /\ pc[c] = "idle"
        /\ Len(records[c]) = 2
        /\ StoredIndex = <<records[c][2].id, records[c][1].id>>
        /\ records[c][1].timestamp > records[c][2].timestamp

\* C12: the setData of a Process call changes the stored document of its
\* record only: the document's timestamp, institution, phenotype and snpCount
\* are the ones stored before the write, and every other key of the contract,
\* the index among them, holds the bytes it held.
C12_ProcessFrame ==
    [][\A c \in Clients :
        ProcessSetData(c) =>
            /\ HasDoc(recordId[c])
            /\ WellFormed(store'[RecordKey(recordId[c])])
            /\ DocIn(store', recordId[c]).timestamp = StoredDoc(recordId[c]).timestamp
            /\ DocIn(store', recordId[c]).institution = StoredDoc(recordId[c]).institution
            /\ DocIn(store', recordId[c]).phenotype = StoredDoc(recordId[c]).phenotype
            /\ DocIn(store', recordId[c]).snpCount = StoredDoc(recordId[c]).snpCount
            /\ \A k \in Keys \ {RecordKey(recordId[c])} : store'[k] = store[k]
      ]_vars

\* A Process call has written its document while the index holds two ids
\* and the other document is stored.
C12_Witness ==
    \E c \in Clients :
        /\ op[c] = "process"
        /\ pc[c] = "ld_avail"
        /\ transactionStatus[c] = TxSuccess("FHE GWAS processing completed!")
        /\ StoredDoc(recordId[c]).status = "processed"
        /\ Len(StoredIndex) = 2
        /\ \E id \in Ids \ {recordId[c]} :
              HasDoc(id) /\ StoredDoc(id).status = "pending"

\* C13: a setData of Create or Process that fails with message m ends the
\* call: the contract is as it was, the handler has returned (it issues no
\* further call), and transactionStatus is a visible error that reports the
\* failure: "Processing failed: m" for Process, "Submission failed: m" for
\* Create, or Create's "Transaction rejected by user" when m is the wallet's
\* rejection.  Only a handler standing at a setData writes the contract.
\* uploading is false whenever uploadGWASData has ended, by failure or after
\* its index write and listing.
SetDataPositions == {"up_setdoc", "up_setkeys", "pr_set"}

C13_SetDataFailureStops ==
    [][/\ \A c \in Clients, m \in SetDataErrors :
            /\ UploadSetDataFails(c, m) =>
                  /\ store' = store
                  /\ pc'[c] = "idle" /\ op'[c] = "none"
                  /\ ~uploading'[c]
                  /\ transactionStatus'[c].visible
                  /\ transactionStatus'[c].status = "error"
                  /\ transactionStatus'[c].message =
                         IF m = "user rejected transaction"
                         THEN <<"Transaction rejected by user">>
                         ELSE <<"Submission failed: ", m>>
            /\ ProcessSetDataFails(c, m) =>
                  /\ store' = store
                  /\ pc'[c] = "idle" /\ op'[c] = "none"
                  /\ transactionStatus'[c].visible
                  /\ transactionStatus'[c].status = "error"
                  /\ transactionStatus'[c].message = <<"Processing failed: ", m>>
       /\ store' # store =>
              \E c \in Clients : pc[c] \in SetDataPositions /\ pc'[c] # "idle"
       /\ \A c \in Clients :
              (op[c] = "upload" /\ op'[c] # "upload") => ~uploading'[c]
      ]_vars

\* The first setData of the only Create so far has reverted: no document,
\* no index, the error shown and uploading false.
C13_Witness ==
    \E c \in Clients :
        /\ pc[c] = "idle"
        /\ transactionStatus[c] = TxError("Submission failed: ", "execution reverted")
        /\ ~uploading[c]
        /\ nextId = 1
        /\ ~HasDoc(RecordId(1))
        /\ store[IndexKey] = EmptyBytes

\* C14: decryptedValue receives a value only from a call that stands after
\* its signing, and the value is the decoding of the call's argument; a call
\* stands after its signing only by the step in which signMessageAsync
\* resolved; a rejected signing ends the call with decryptedValue still null;
\* no step of decryptWithSignature changes the contract; isDecrypting is
\* false whenever no call is past line 219.
C14_DecodeOnlyAfterSignature ==
    [][\A c \in Clients :
        /\ (decryptedValue'[c] # Null /\ decryptedValue'[c] # decryptedValue[c]) =>
               /\ pcDecrypt[c] = "de_wait"
               /\ decryptedValue'[c] = FHEDecryptNumber(decryptInput[c])
        /\ (pcDecrypt'[c] = "de_wait" /\ pcDecrypt[c] # "de_wait") =>
               /\ pcDecrypt[c] = "de_sign"
               /\ DecryptSigned(c)
        /\ DecryptSignFails(c) =>
               /\ decryptedValue[c] = Null
               /\ decryptedValue'[c] = Null
               /\ pcDecrypt'[c] = "idle"
        /\ pcDecrypt'[c] # pcDecrypt[c] => store' = store
        /\ pcDecrypt'[c] \in {"idle", "alert"} => ~isDecrypting'[c]
      ]_vars

\* The value of a record submitted with effect size 10 is shown.
C14_Witness ==
    \E c \in Clients :
        /\ pcDecrypt[c] = "idle"
        /\ ~isDecrypting[c]
        /\ decryptedValue[c] = Num(10)
        /\ \E i \in 1..Len(records[c]) :
              records[c][i].encryptedData = EncodedText(Num(10))

\* C15, as claimed: when two Create calls have interleaved and both have
\* written the index, the stored index holds an id twice.
NoRepeat(seq) == \A i, j \in 1..Len(seq) : seq[i] = seq[j] => i = j

C16_SecondProcessRederives ==
    [][\A c \in Clients :
        /\ (/\ ProcessGetRecord(c)
            /\ HasDoc(recordId[c])
            /\ StoredDoc(recordId[c]).status = "processed")
           => /\ pc'[c] = "pr_set"
              /\ recordData'[c] = StoredDoc(recordId[c])
              /\ transactionStatus'[c].status = "pending"
        /\ (ProcessSetData(c) /\ recordData[c].status = "processed")
           => /\ DocIn(store', recordId[c]).status = "processed"
              /\ DocIn(store', recordId[c]).data = FHEComputeGWAS(recordData[c].data)
              /\ transactionStatus'[c] = TxSuccess("FHE GWAS processing completed!")
      ]_vars

\* The owner's second Process of a record submitted with effect size 10 has
\* written exp(-0.1 * exp(-0.1 * 10)).
C16_Witness ==
    \E c \in Clients :
        /\ op[c] = "process"
        /\ pc[c] = "ld_avail"
        /\ isOwner(address[c], recordData[c].institution)
        /\ recordData[c].status = "processed"
        /\ recordData[c].data = FHEComputeGWAS(EncodedText(Num(10)))
        /\ StoredDoc(recordId[c]).status = "processed"
        /\ StoredDoc(recordId[c]).data =
               FHEComputeGWAS(FHEComputeGWAS(EncodedText(Num(10))))
        /\ FHEDecryptNumber(StoredDoc(recordId[c]).data) = [lit |-> 10, exps |-> 2]
        /\ transactionStatus[c] = TxSuccess("FHE GWAS processing completed!")

\* C17: a Create that stands at its index read or at its index write has
\* stored its document, and its id is not in the stored index; when it ends
\* there (a failing call, or the page closed) the document stays stored and
\* its id stays out of the index; and loadRecords lists only ids of the
\* stored index, so it does not list that document.
C17_OrphanDocument ==
    [][\A c \in Clients :
        /\ (op[c] = "upload" /\ pc[c] \in {"up_getkeys", "up_setkeys"}) =>
               /\ HasDoc(recordId[c])
               /\ recordId[c] \notin Range(StoredIndex)
               /\ pc'[c] = "idle" =>
                      /\ WellFormed(store'[RecordKey(recordId[c])])
                      /\ recordId[c] \notin Range(StoredIndex')
        /\ \A failing \in SUBSET Ids :
               LoadRecords(c, failing) =>
                   \A r \in Range(records'[c]) : r.id \in Range(StoredIndex)
      ]_vars

\* The index write of one of two Create calls has reverted: its document is
\* stored, the index lacks its id, no call is running, and the other
\* session's listing holds the indexed record only.
C17_Witness ==
    /\ \A c \in Clients : pc[c] = "idle"
    /\ nextId = 2
    /\ \E d \in Clients :
          transactionStatus[d] = TxError("Submission failed: ", "execution reverted")
    /\ \E id \in Ids :
          /\ HasDoc(id)
          /\ id \notin Range(StoredIndex)
          /\ \E c \in Clients :
                /\ Len(records[c]) = 1
                /\ records[c][1].id # id
                /\ StoredIndex = <<records[c][1].id>>

\* C18: a Create that reads a non-empty index that does not parse goes on:
\* the keys it holds are its new id alone, and its index write stores these
\* keys, so the stored index then holds no other id.
C18_UnparsableIndexReset ==
    [][\A c \in Clients :
        /\ (/\ UploadGetKeys(c)
            /\ Len(store[IndexKey]) > 0
            /\ ~JSONparseOk(toUtf8String(store[IndexKey])))
           => /\ pc'[c] = "up_setkeys"
              /\ keys'[c] = <<recordId[c]>>
              /\ transactionStatus'[c] = transactionStatus[c]
        /\ (UploadSetKeys(c) /\ keys[c] = <<recordId[c]>>)
           => /\ WellFormed(store'[IndexKey])
              /\ StoredIndex' = <<recordId[c]>>
              /\ \A id \in Ids \ {recordId[c]} : id \notin Range(StoredIndex')
              /\ transactionStatus'[c] = UploadSuccess
      ]_vars

\* A session's second Create, made after its first one had written the
\* index, has read the index another user made unparsable: it holds its new
\* id alone, the document of the first Create being stored.
C18_Witness ==
    \E c \in Clients :
        /\ \A d \in Clients \ {c} : address[d] # address[c]
        /\ op[c] = "upload"
        /\ pc[c] = "up_setkeys"
        /\ store[IndexKey] = Garbage
        /\ recordId[c] = RecordId(2)
        /\ keys[c] = <<RecordId(2)>>
        /\ HasDoc(RecordId(1))
        /\ StoredDoc(RecordId(1)).institution = address[c]

\* C19: the setData of an owner's Process call stores the document the call
\* read with status processed and data Derive(the data read), whatever the
\* contract holds when the write lands.  So when the call read the record
\* pending and another call, which read it pending too, has written
\* Derive(original) meanwhile, the write stores Derive(original) again: the
\* data is derived once; and when the call read the document another call
\* had written, it stores Derive of that call's Derive.  The stored status
\* is processed in both cases.
C19_ProcessInterleavings ==
    [][\A c \in Clients :
        (/\ ProcessSetData(c)
         /\ isOwner(address[c], recordData[c].institution))
        => /\ HasDoc(recordId[c])
           /\ DocIn(store', recordId[c]) = UpdatedRecord(recordData[c])
           /\ DocIn(store', recordId[c]).status = "processed"
           /\ (/\ recordData[c].status = "pending"
               /\ StoredDoc(recordId[c]) = UpdatedRecord(recordData[c]))
              => /\ DocIn(store', recordId[c]) = StoredDoc(recordId[c])
                 /\ DocIn(store', recordId[c]).data =
                        FHEComputeGWAS(recordData[c].data)
           /\ (/\ recordData[c].status = "processed"
               /\ StoredDoc(recordId[c]) = recordData[c])
              => DocIn(store', recordId[c]).data =
                     FHEComputeGWAS(StoredDoc(recordId[c]).data)
      ]_vars

\* Both calls read the pending record submitted with effect size 10 and both
\* have written: the stored data is derived once.
C19_Witness ==
    /\ \A c \in Clients :
          /\ op[c] = "process" /\ pc[c] = "ld_avail"
          /\ isOwner(address[c], recordData[c].institution)
          /\ recordData[c].status = "pending"
          /\ recordData[c].data = EncodedText(Num(10))
          /\ recordId[c] = RecordId(1)
    /\ StoredDoc(RecordId(1)).status = "processed"
    /\ FHEDecryptNumber(StoredDoc(RecordId(1)).data) = [lit |-> 10, exps |-> 1]

\* The second call read what the first one wrote and both have written: the
\* stored data is derived twice.
C19_SequentialReached ==
    \E c, d \in Clients :
        /\ c # d
        /\ op[c] = "process" /\ pc[c] = "ld_avail"
        /\ op[d] = "process" /\ pc[d] = "ld_avail"
        /\ recordId[c] = recordId[d]
        /\ recordData[c].status = "pending"
        /\ recordData[c].data = EncodedText(Num(10))
        /\ recordData[d] = UpdatedRecord(recordData[c])
        /\ FHEDecryptNumber(StoredDoc(recordId[c]).data) = [lit |-> 10, exps |-> 2]

====
